---------------------------- MODULE Spec2Model ----------------------------
(***************************************************************************)
(* State-machine model of the RentUZ MVP service (src/app.py): the startup *)
(* hook, the /cars listing handler, the /admin/seed handler and the        *)
(* shutdown hook, together with the PostgreSQL tables and the asyncpg      *)
(* connection pool they act on.                                            *)
(*                                                                         *)
(* Conventions.                                                            *)
(*   - A nullable value (a Python Optional, an SQL NULL) is a sequence of  *)
(*     length at most one: Null is <<>> and a present value v is <<v>>.    *)
(*   - A text value that is pattern-matched (city, class) is a sequence of *)
(*     one-character strings.                                              *)
(*   - Of the 22 columns the seed writes into cars, the model keeps the    *)
(*     key columns and the columns list_cars reads (filter, order,         *)
(*     projection); title stands for the remaining mutable columns, all of *)
(*     which the upsert treats alike.                                      *)
(*   - Every await on storage is one step of a handler; handlers are       *)
(*     asyncio tasks and are kept as a bag of task records.                *)
(*   - last holds the response a handler has just produced; the handlers   *)
(*     take their next steps once it has been sent (Respond), so that each *)
(*     response is seen in the state of storage it was computed from.      *)
(*   - DB_URL is _dsn_fix(DATABASE_URL).  Line 10 calls _dsn_fix above its *)
(*     definition (line 120); the model takes the import to succeed and    *)
(*     starts where on_startup is about to run.                            *)
(***************************************************************************)
EXTENDS Integers, Sequences, FiniteSets, Bags, TLC

VARIABLES
    DB_URL,       \* module global DB_URL (line 10)
    SEED_TOKEN,   \* environment variable SEED_TOKEN (line 130)
    reachable,    \* whether the storage behind DB_URL accepts connections
    phase,        \* "boot" | "serving" | "failed" | "stopped"
    pool,         \* app.state.pool: "unset" | "None" | "open" | "closed"
    acquired,     \* connections handed out by pool.acquire() so far
    released,     \* connections given back to the pool so far
    waited,       \* tasks that reached pool.acquire() so far
    ensured,      \* the startup DDL was executed by this process
    partners,     \* table partners
    cars,         \* table cars
    partner_seq,  \* next value of partners.id (SERIAL)
    car_seq,      \* next value of cars.id (BIGSERIAL)
    now,          \* the storage clock read by now()
    tasks,        \* bag of request handlers suspended at an await
    nseed,        \* admin_seed requests received so far
    nlist,        \* list_cars requests received so far
    query,        \* the query parameters of the GET /cars requests of the run
    last          \* the response being sent, or NoResp

vars == <<DB_URL, SEED_TOKEN, reachable, phase, pool, acquired, released, waited,
          ensured, partners, cars, partner_seq, car_seq, now, tasks, nseed, nlist,
          query, last>>

-----------------------------------------------------------------------------
(* Bounds of the model.                                                    *)

MaxSeedCalls == 2     \* admin_seed requests in a run of Spec
MaxListCalls == 1     \* list_cars requests in a run of Spec
QuerySeedCalls == 1   \* admin_seed requests in a run of QuerySpec
QueryListCalls == 1   \* list_cars requests in a run of QuerySpec
QueryPre == 2         \* rows of another partner already stored, QuerySpec
PoolExtra == 1        \* list_cars requests beyond the pool size, PoolSpec
PoolSeedCalls == 1    \* admin_seed requests in a run of PoolSpec

(* asyncpg.create_pool(DB_URL, max_size=10)                                *)
MaxSize == 10

PoolListCalls == MaxSize + PoolExtra

-----------------------------------------------------------------------------
(* Nullable values and text.                                               *)

Null == <<>>
Some(v) == <<v>>
IsNull(x) == x = <<>>
Val(x) == x[1]

Tashkent == <<"T", "a", "s", "h", "k", "e", "n", "t">>
Samarkand == <<"S", "a", "m", "a", "r", "k", "a", "n", "d">>
Economy == <<"e", "c", "o", "n", "o", "m", "y">>
Comfort == <<"c", "o", "m", "f", "o", "r", "t">>

(* Case folding as ILIKE applies it, on the letters the model uses.        *)
Lower(c) ==
    CASE c = "T" -> "t"
      [] c = "A" -> "a"
      [] c = "S" -> "s"
      [] c = "H" -> "h"
      [] c = "E" -> "e"
      [] c = "C" -> "c"
      [] c = "O" -> "o"
      [] OTHER -> c

(* f"%{city}%": the input between two % signs, nothing escaped.            *)
Wrap(s) == <<"%">> \o s \o <<"%">>

(* PostgreSQL's text ILIKE pattern: % matches any run of characters, _ any *)
(* one character, a backslash makes the next pattern character literal,    *)
(* every other character matches itself without regard to case.            *)
RECURSIVE ILike(_, _)
ILike(s, p) ==
    IF p = <<>> THEN s = <<>>
    ELSE IF Head(p) = "%"
         THEN ILike(s, Tail(p)) \/ (s # <<>> /\ ILike(Tail(s), p))
    ELSE IF Head(p) = "_"
         THEN s # <<>> /\ ILike(Tail(s), Tail(p))
    ELSE IF Head(p) = "\\" /\ Len(p) >= 2
         THEN /\ s # <<>>
              /\ Lower(Head(s)) = Lower(p[2])
              /\ ILike(Tail(s), Tail(Tail(p)))
    ELSE /\ s # <<>>
         /\ Lower(Head(s)) = Lower(Head(p))
         /\ ILike(Tail(s), Tail(p))

(* Python truthiness of an Optional[str]: neither None nor "".             *)
Truthy(x) == ~IsNull(x) /\ Val(x) # <<>>

-----------------------------------------------------------------------------
(* list_cars: the statement it builds and what storage answers.            *)

(* The WHERE clauses appended after "available = TRUE", in order.          *)
Clauses(a) ==
    (IF Truthy(a.city)
       THEN <<[col |-> "city", op |-> "ILIKE", arg |-> Wrap(Val(a.city))]>>
       ELSE <<>>)
    \o (IF Truthy(a.car_class)
       THEN <<[col |-> "class", op |-> "ILIKE", arg |-> Wrap(Val(a.car_class))]>>
       ELSE <<>>)
    \o (IF ~IsNull(a.max_price)
       THEN <<[col |-> "price_per_day", op |-> "<=", arg |-> Val(a.max_price)]>>
       ELSE <<>>)
    \o (IF ~IsNull(a.with_driver)
       THEN <<[col |-> "with_driver", op |-> "=", arg |-> Val(a.with_driver)]>>
       ELSE <<>>)

(* SQL three-valued logic: a comparison with NULL is not true.             *)
Holds(c, cl) ==
    CASE cl.col = "city" -> ~IsNull(c.city) /\ ILike(Val(c.city), cl.arg)
      [] cl.col = "class" -> ~IsNull(c.class) /\ ILike(Val(c.class), cl.arg)
      [] cl.col = "price_per_day" ->
            ~IsNull(c.price_per_day) /\ Val(c.price_per_day) <= cl.arg
      [] cl.col = "with_driver" ->
            ~IsNull(c.with_driver) /\ Val(c.with_driver) = cl.arg

Selected(rows, a) ==
    {c \in rows : c.available /\ \A i \in DOMAIN Clauses(a) : Holds(c, Clauses(a)[i])}

(* Variant: ORDER BY price_per_day ASC NULLS LAST alone.                   *)
BeforeByPriceOnly(a, b) ==
    \/ ~IsNull(a.price_per_day) /\ IsNull(b.price_per_day)
    \/ /\ ~IsNull(a.price_per_day) /\ ~IsNull(b.price_per_day)
       /\ Val(a.price_per_day) < Val(b.price_per_day)

(* ORDER BY price_per_day ASC NULLS LAST, updated_at DESC: a strictly      *)
(* precedes b.                                                             *)
Before(a, b) ==
    \/ ~IsNull(a.price_per_day) /\ IsNull(b.price_per_day)
    \/ /\ ~IsNull(a.price_per_day) /\ ~IsNull(b.price_per_day)
       /\ Val(a.price_per_day) < Val(b.price_per_day)
    \/ /\ a.price_per_day = b.price_per_day
       /\ a.updated_at > b.updated_at

(* Every order storage may return the rows in: ties are in any order.      *)
RECURSIVE Orderings(_)
Orderings(S) ==
    IF S = {} THEN {<<>>}
    ELSE UNION {{<<r>> \o t : t \in Orderings(S \ {r})} :
                    r \in {x \in S : \A y \in S : ~Before(y, x)}}

Min(a, b) == IF a <= b THEN a ELSE b

(* Variant: a limit of 0 read as "no limit".                               *)
WindowZeroUnbounded(s, limit, offset) ==
    IF offset >= Len(s) THEN <<>>
    ELSE IF limit = 0 THEN SubSeq(s, offset + 1, Len(s))
    ELSE SubSeq(s, offset + 1, Min(Len(s), offset + limit))

(* LIMIT limit OFFSET offset, for non-negative limit and offset.           *)
Window(s, limit, offset) ==
    IF offset >= Len(s) THEN <<>>
    ELSE SubSeq(s, offset + 1, Min(Len(s), offset + limit))

(* PostgreSQL rejects a negative LIMIT or OFFSET.                          *)
QueryRejected(a) == a.limit < 0 \/ a.offset < 0

(* The columns of the SELECT list.                                         *)
Project(c) ==
    [id |-> c.id, title |-> c.title, class |-> c.class, city |-> c.city,
     price_per_day |-> c.price_per_day]

(* [dict(r) for r in rows]                                                 *)
Answers(rows, a) ==
    {[i \in DOMAIN Window(ord, a.limit, a.offset) |->
          Project(Window(ord, a.limit, a.offset)[i])] :
        ord \in Orderings(Selected(rows, a))}

-----------------------------------------------------------------------------
(* Storage: the two tables the handlers touch and the upsert statements.   *)

(* Variant: a plain INSERT into a table without the unique slug.           *)
UpsertPartnerNoConflict(rows, seq, v, t) ==
    [rows |-> rows \cup {[id |-> seq, slug |-> v.slug, name |-> v.name,
                          created_at |-> t]},
     id |-> seq, seq |-> seq + 1]

(* Variant: ON CONFLICT (slug) DO NOTHING, the stored id looked up.        *)
UpsertPartnerDoNothing(rows, seq, v, t) ==
    LET hit == {r \in rows : r.slug = v.slug} IN
    IF hit = {}
    THEN [rows |-> rows \cup {[id |-> seq, slug |-> v.slug, name |-> v.name,
                               created_at |-> t]},
          id |-> seq, seq |-> seq + 1]
    ELSE [rows |-> rows, id |-> (CHOOSE r \in hit : TRUE).id, seq |-> seq + 1]

(* Variant: on conflict the id drawn for the insert is returned instead of *)
(* the id of the stored row.                                               *)
UpsertPartnerReturnsDrawnId(rows, seq, v, t) ==
    LET hit == {r \in rows : r.slug = v.slug} IN
    IF hit = {}
    THEN [rows |-> rows \cup {[id |-> seq, slug |-> v.slug, name |-> v.name,
                               created_at |-> t]},
          id |-> seq, seq |-> seq + 1]
    ELSE LET old == CHOOSE r \in hit : TRUE IN
         [rows |-> (rows \ {old}) \cup {[old EXCEPT !.name = v.name]},
          id |-> seq, seq |-> seq + 1]

(* INSERT INTO partners ... ON CONFLICT (slug) DO UPDATE SET name=...      *)
(* RETURNING id.  The id default (nextval) is evaluated before the         *)
(* conflict is detected; created_at is set on insert only.                 *)
UpsertPartner(rows, seq, v, t) ==
    LET hit == {r \in rows : r.slug = v.slug} IN
    IF hit = {}
    THEN [rows |-> rows \cup {[id |-> seq, slug |-> v.slug, name |-> v.name,
                               created_at |-> t]},
          id |-> seq, seq |-> seq + 1]
    ELSE LET old == CHOOSE r \in hit : TRUE IN
         [rows |-> (rows \ {old}) \cup {[old EXCEPT !.name = v.name]},
          id |-> old.id, seq |-> seq + 1]

(* INSERT INTO cars ... ON CONFLICT (partner_id, external_id) DO UPDATE    *)
(* SET ..., updated_at=now() RETURNING id.  partner_id REFERENCES          *)
(* partners(id): the statement raises when no such partner exists.         *)
UpsertCar(rows, prows, seq, pid, v, t) ==
    LET hit == {r \in rows : r.partner_id = pid /\ r.external_id = v.external_id}
        new == [id |-> seq, partner_id |-> pid, external_id |-> v.external_id,
                title |-> v.title, class |-> v.class, city |-> v.city,
                price_per_day |-> v.price_per_day, with_driver |-> v.with_driver,
                available |-> v.available, updated_at |-> t]
    IN
    IF ~\E p \in prows : p.id = pid
    THEN [raised |-> TRUE, rows |-> rows, id |-> 0, seq |-> seq]
    ELSE IF hit = {}
    THEN [raised |-> FALSE, rows |-> rows \cup {new}, id |-> seq, seq |-> seq + 1]
    ELSE LET old == CHOOSE r \in hit : TRUE IN
         [raised |-> FALSE,
          rows |-> (rows \ {old}) \cup {[new EXCEPT !.id = old.id]},
          id |-> old.id, seq |-> seq + 1]

(* The literal arguments of the three statements of admin_seed.            *)
DemoPartner == [name |-> "Demo Rent", slug |-> "demo-rent"]

DemoCar1 ==
    [external_id |-> "demo-001", title |-> "Chevrolet Cobalt",
     class |-> Some(Economy), city |-> Some(Tashkent),
     price_per_day |-> Some(250000), with_driver |-> Some(FALSE),
     available |-> TRUE]

DemoCar2 ==
    [external_id |-> "demo-002", title |-> "Chevrolet Malibu",
     class |-> Some(Comfort), city |-> Some(Tashkent),
     price_per_day |-> Some(400000), with_driver |-> Some(TRUE),
     available |-> TRUE]

(* Rows a store provisioned earlier may already hold: rows of another      *)
(* partner and the demo rows as an earlier seed (or a later edit) left     *)
(* them.  They satisfy the constraints of the schema.                      *)
OtherPartner ==
    [id |-> 1, slug |-> "other-rent", name |-> "Other Rent", created_at |-> 0]

OldDemoPartner ==
    [id |-> 2, slug |-> "demo-rent", name |-> "Old Demo", created_at |-> 0]

OldDemoCar ==
    [id |-> 1, partner_id |-> 2, external_id |-> "demo-001", title |-> "Old Cobalt",
     class |-> Some(Comfort), city |-> Some(Samarkand),
     price_per_day |-> Some(100000), with_driver |-> Null,
     available |-> FALSE, updated_at |-> 0]

OtherCars ==
    {[id |-> 2, partner_id |-> 1, external_id |-> "x-1", title |-> "Spark",
      class |-> Some(Economy), city |-> Some(Tashkent),
      price_per_day |-> Some(250000), with_driver |-> Some(FALSE),
      available |-> TRUE, updated_at |-> 0],
     [id |-> 3, partner_id |-> 1, external_id |-> "x-2", title |-> "Nexia",
      class |-> Null, city |-> Null,
      price_per_day |-> Null, with_driver |-> Null,
      available |-> TRUE, updated_at |-> 1],
     [id |-> 4, partner_id |-> 1, external_id |-> "x-3", title |-> "Gentra",
      class |-> Some(Comfort), city |-> Some(Samarkand),
      price_per_day |-> Some(250000), with_driver |-> Some(TRUE),
      available |-> TRUE, updated_at |-> 1],
     [id |-> 5, partner_id |-> 1, external_id |-> "x-4", title |-> "Damas",
      class |-> Some(Economy), city |-> Some(Tashkent),
      price_per_day |-> Some(100000), with_driver |-> Some(FALSE),
      available |-> FALSE, updated_at |-> 1]}

FreshStore == [partners |-> {}, cars |-> {}, partner_seq |-> 1, car_seq |-> 1]

(* The stores with at most k rows of the other partner.                    *)
Stores(k) ==
    {FreshStore} \cup
    {[partners |-> {OtherPartner} \cup demo.p, cars |-> oc \cup demo.c,
      partner_seq |-> 3, car_seq |-> 6] :
        oc \in {S \in SUBSET OtherCars : Cardinality(S) <= k},
        demo \in {[p |-> {}, c |-> {}],
                  [p |-> {OldDemoPartner}, c |-> {}],
                  [p |-> {OldDemoPartner}, c |-> {OldDemoCar}]}}

-----------------------------------------------------------------------------
(* Configuration read at import and at request time.                       *)

(* _dsn_fix: a URL is a sequence <<scheme, rest>>; "" is <<>>.             *)
DsnFix(url) ==
    IF IsNull(url) \/ Val(url) = <<>> THEN url
    ELSE IF Head(Val(url)) = "postgres://"
         THEN Some(<<"postgresql://">> \o Tail(Val(url)))
         ELSE url

DatabaseUrls ==
    {Null, Some(<<>>), Some(<<"postgres://", "db.example/rent">>),
     Some(<<"postgresql://", "db.example/rent">>)}

(* SEED_TOKEN in the environment, and the token query parameter.           *)
Secrets == {Null, Some(""), Some("s3cret")}
Tokens == {Null, Some(""), Some("s3cret"), Some("wrong")}

(* Python truthiness of an Optional[str] held as a plain string.           *)
Set(x) == ~IsNull(x) /\ Val(x) # ""

-----------------------------------------------------------------------------
(* Responses and tasks.                                                    *)

NoResp == [kind |-> "none"]

ListResp(a, status, rows, err) ==
    [kind |-> "list", args |-> a, status |-> status, rows |-> rows, err |-> err]

SeedResp(token, status, body, err) ==
    [kind |-> "seed", token |-> token, status |-> status, body |-> body, err |-> err]

Task(kind, pc, args, pid, car1) ==
    [kind |-> kind, pc |-> pc, args |-> args, pid |-> pid, car1 |-> car1]

Add(b, t) == b (+) SetToBag({t})
Remove(b, t) == b (-) SetToBag({t})

Held == acquired - released

(* Variant: not hasattr(app.state, "pool").                                *)
PoolUnsetOnly(p) == p = "unset"

(* not getattr(app.state, "pool", None)                                    *)
PoolMissing(p) == p \in {"unset", "None"}

(* pool.acquire() hands out a connection while fewer than max_size are     *)
(* held, and otherwise waits.                                              *)
CanAcquire(held) == held < MaxSize

(* Variant: the connection goes back on the normal exit only.              *)
ReleaseUnlessRaised(rel, raised) == IF raised THEN rel ELSE rel + 1

(* async with pool.acquire(): the connection goes back on every exit.      *)
AfterRelease(rel, raised) == rel + 1

-----------------------------------------------------------------------------
(* on_startup and on_shutdown.                                             *)

(* Variant: if DB_URL is None, so that "" goes on to create_pool.          *)
StartupNoneOnly(url, up) ==
    IF IsNull(url) THEN "none"
    ELSE IF up THEN "open"
    ELSE "raise"

(* What line 19 to 25 come to: "none" (pool = None), "open" (pool created, *)
(* DDL executed) or "raise" (create_pool raises, startup fails).           *)
StartupOutcome(url, up) ==
    IF ~Truthy(url) THEN "none"
    ELSE IF up THEN "open"
    ELSE "raise"

OnStartup ==
    /\ phase = "boot"
    /\ LET out == StartupOutcome(DB_URL, reachable) IN
       /\ phase' = IF out = "raise" THEN "failed" ELSE "serving"
       /\ pool' = IF out = "none" THEN "None" ELSE IF out = "open" THEN "open" ELSE pool
       /\ ensured' = (out = "open")
       /\ waited' = IF out = "open" THEN waited + 1 ELSE waited
       /\ acquired' = IF out = "open" THEN acquired + 1 ELSE acquired
       /\ released' = IF out = "open" THEN AfterRelease(released, FALSE) ELSE released
    /\ UNCHANGED <<DB_URL, query, SEED_TOKEN, reachable, partners, cars, partner_seq,
                   car_seq, now, tasks, nseed, nlist, last>>

OnShutdown ==
    /\ phase = "serving"
    /\ tasks = EmptyBag
    /\ last = NoResp
    /\ phase' = "stopped"
    /\ pool' = IF PoolMissing(pool) THEN pool ELSE "closed"
    /\ UNCHANGED <<DB_URL, query, SEED_TOKEN, reachable, acquired, released, waited,
                   ensured, partners, cars, partner_seq, car_seq, now, tasks,
                   nseed, nlist, last>>

(* The response in last has been sent.                                     *)
Respond ==
    /\ last # NoResp
    /\ last' = NoResp
    /\ UNCHANGED <<DB_URL, query, SEED_TOKEN, reachable, phase, pool, acquired, released,
                   waited, ensured, partners, cars, partner_seq, car_seq, now,
                   tasks, nseed, nlist>>

(* Requests are handled once startup is over (and no response is being     *)
(* sent).                                                                  *)
Serving == phase = "serving" /\ last = NoResp

-----------------------------------------------------------------------------
(* list_cars.                                                              *)

ListArgs(city, car_class, max_price, with_driver, limit, offset) ==
    [city |-> city, car_class |-> car_class, max_price |-> max_price,
     with_driver |-> with_driver, limit |-> limit, offset |-> offset]

(* GET /cars with no parameter: limit 20, offset 0.                        *)
DefaultArgs == ListArgs(Null, Null, Null, Null, 20, 0)

(* Lines 99 to 113: up to the await of pool.acquire().                     *)
ListCall(cap) ==
    /\ Serving
    /\ nlist < cap
    /\ nlist' = nlist + 1
    /\ LET a == query IN
        IF PoolMissing(pool)
        THEN /\ last' = ListResp(a, 200, <<>>, "none")
             /\ UNCHANGED <<tasks, waited>>
        ELSE /\ tasks' = Add(tasks, Task("list", "acquire", a, Null, Null))
             /\ waited' = waited + 1
             /\ UNCHANGED last
    /\ UNCHANGED <<DB_URL, query, SEED_TOKEN, reachable, phase, pool, acquired, released,
                   ensured, partners, cars, partner_seq, car_seq, now, nseed>>

(* Line 114: the connection is handed out.                                 *)
ListAcquire ==
    /\ Serving
    /\ CanAcquire(Held)
    /\ \E t \in BagToSet(tasks) :
        /\ t.kind = "list" /\ t.pc = "acquire"
        /\ tasks' = Add(Remove(tasks, t), [t EXCEPT !.pc = "fetch"])
    /\ acquired' = acquired + 1
    /\ UNCHANGED <<DB_URL, query, SEED_TOKEN, reachable, phase, pool, released, waited,
                   ensured, partners, cars, partner_seq, car_seq, now, nseed,
                   nlist, last>>

(* Lines 115 and 116: the query runs, the connection goes back, the rows   *)
(* are returned.  The storage call may raise (connection lost), and raises *)
(* on a rejected statement.                                                *)
ListFetch ==
    /\ Serving
    /\ \E t \in BagToSet(tasks) :
        /\ t.kind = "list" /\ t.pc = "fetch"
        /\ tasks' = Remove(tasks, t)
        /\ \E lost \in BOOLEAN :
            IF lost
            THEN /\ last' = ListResp(t.args, 500, <<>>, "storage")
                 /\ released' = AfterRelease(released, TRUE)
            ELSE IF QueryRejected(t.args)
            THEN /\ last' = ListResp(t.args, 500, <<>>, "query")
                 /\ released' = AfterRelease(released, TRUE)
            ELSE /\ \E rows \in Answers(cars, t.args) :
                        last' = ListResp(t.args, 200, rows, "none")
                 /\ released' = AfterRelease(released, FALSE)
    /\ UNCHANGED <<DB_URL, query, SEED_TOKEN, reachable, phase, pool, acquired, waited,
                   ensured, partners, cars, partner_seq, car_seq, now, nseed, nlist>>

-----------------------------------------------------------------------------
(* admin_seed.                                                             *)

(* Variant: the token is not compared with the secret.                    *)
AuthorizeSecretOnly(secret, token) ==
    IF ~Set(secret) THEN 500 ELSE 0

(* Lines 132 to 135: 500, 401 or 0 (the request goes on).                  *)
Authorize(secret, token) ==
    IF ~Set(secret) THEN 500
    ELSE IF token # secret THEN 401
    ELSE 0

(* Lines 130 to 142: up to the await of pool.acquire().                    *)
SeedCall(cap) ==
    /\ Serving
    /\ nseed < cap
    /\ nseed' = nseed + 1
    /\ \E token \in Tokens :
        LET auth == Authorize(SEED_TOKEN, token) IN
        IF auth # 0
        THEN /\ last' = SeedResp(token, auth, [detail |-> "rejected"], "none")
             /\ UNCHANGED <<tasks, waited>>
        ELSE IF PoolMissing(pool)
        THEN /\ last' = SeedResp(token, 200,
                                 [ok |-> FALSE, error |-> "DB pool is not initialized"],
                                 "none")
             /\ UNCHANGED <<tasks, waited>>
        ELSE /\ tasks' = Add(tasks, Task("seed", "acquire", [token |-> token], Null, Null))
             /\ waited' = waited + 1
             /\ UNCHANGED last
    /\ UNCHANGED <<DB_URL, query, SEED_TOKEN, reachable, phase, pool, acquired, released,
                   ensured, partners, cars, partner_seq, car_seq, now, nlist>>

(* Line 142: the connection is handed out.                                 *)
SeedAcquire ==
    /\ Serving
    /\ CanAcquire(Held)
    /\ \E t \in BagToSet(tasks) :
        /\ t.kind = "seed" /\ t.pc = "acquire"
        /\ tasks' = Add(Remove(tasks, t), [t EXCEPT !.pc = "partner"])
    /\ acquired' = acquired + 1
    /\ UNCHANGED <<DB_URL, query, SEED_TOKEN, reachable, phase, pool, released, waited,
                   ensured, partners, cars, partner_seq, car_seq, now, nseed,
                   nlist, last>>

(* A statement of the seed raised: the connection goes back and the        *)
(* request ends with a server error.                                       *)
SeedRaise(t) ==
    /\ tasks' = Remove(tasks, t)
    /\ released' = AfterRelease(released, TRUE)
    /\ last' = SeedResp(t.args.token, 500, [detail |-> "error"], "storage")

(* Lines 144 to 155: the partner upsert, partner_id = p["id"].             *)
SeedPartner ==
    /\ Serving
    /\ \E t \in BagToSet(tasks) :
        /\ t.kind = "seed" /\ t.pc = "partner"
        /\ \E lost \in BOOLEAN :
            IF lost
            THEN /\ SeedRaise(t)
                 /\ UNCHANGED <<partners, partner_seq, now>>
            ELSE LET r == UpsertPartner(partners, partner_seq, DemoPartner, now) IN
                 /\ partners' = r.rows
                 /\ partner_seq' = r.seq
                 /\ now' = now + 1
                 /\ tasks' = Add(Remove(tasks, t),
                                 [t EXCEPT !.pc = "car1", !.pid = Some(r.id)])
                 /\ UNCHANGED <<released, last>>
    /\ UNCHANGED <<DB_URL, query, SEED_TOKEN, reachable, phase, pool, acquired, waited,
                   ensured, cars, car_seq, nseed, nlist>>

(* Lines 158 to 182: the upsert of demo-001.                               *)
SeedCar1 ==
    /\ Serving
    /\ \E t \in BagToSet(tasks) :
        /\ t.kind = "seed" /\ t.pc = "car1"
        /\ \E lost \in BOOLEAN :
            LET r == UpsertCar(cars, partners, car_seq, Val(t.pid), DemoCar1, now) IN
            IF lost \/ r.raised
            THEN /\ SeedRaise(t)
                 /\ UNCHANGED <<cars, car_seq, now>>
            ELSE /\ cars' = r.rows
                 /\ car_seq' = r.seq
                 /\ now' = now + 1
                 /\ tasks' = Add(Remove(tasks, t),
                                 [t EXCEPT !.pc = "car2", !.car1 = Some(r.id)])
                 /\ UNCHANGED <<released, last>>
    /\ UNCHANGED <<DB_URL, query, SEED_TOKEN, reachable, phase, pool, acquired, waited,
                   ensured, partners, partner_seq, nseed, nlist>>

(* Lines 184 to 210: the upsert of demo-002, the connection goes back, the *)
(* ids are returned.                                                       *)
SeedCar2 ==
    /\ Serving
    /\ \E t \in BagToSet(tasks) :
        /\ t.kind = "seed" /\ t.pc = "car2"
        /\ \E lost \in BOOLEAN :
            LET r == UpsertCar(cars, partners, car_seq, Val(t.pid), DemoCar2, now) IN
            IF lost \/ r.raised
            THEN /\ SeedRaise(t)
                 /\ UNCHANGED <<cars, car_seq, now>>
            ELSE /\ cars' = r.rows
                 /\ car_seq' = r.seq
                 /\ now' = now + 1
                 /\ tasks' = Remove(tasks, t)
                 /\ released' = AfterRelease(released, FALSE)
                 /\ last' = SeedResp(t.args.token, 200,
                                     [ok |-> TRUE, partner_id |-> Val(t.pid),
                                      cars |-> <<Val(t.car1), r.id>>],
                                     "none")
    /\ UNCHANGED <<DB_URL, query, SEED_TOKEN, reachable, phase, pool, acquired, waited,
                   ensured, partners, partner_seq, nseed, nlist>>

-----------------------------------------------------------------------------
(* Specifications.                                                         *)

InitWith(urls, secrets, ups, stores, argset) ==
    /\ DB_URL \in {DsnFix(u) : u \in urls}
    /\ SEED_TOKEN \in secrets
    /\ reachable \in ups
    /\ \E st \in stores :
        /\ partners = st.partners
        /\ cars = st.cars
        /\ partner_seq = st.partner_seq
        /\ car_seq = st.car_seq
    /\ phase = "boot"
    /\ pool = "unset"
    /\ acquired = 0
    /\ released = 0
    /\ waited = 0
    /\ ensured = FALSE
    /\ now = 2
    /\ tasks = EmptyBag
    /\ nseed = 0
    /\ nlist = 0
    /\ query \in argset
    /\ last = NoResp

(* Requests of Spec: the default listing and the listing of the scenario.  *)
SpecArgs ==
    {DefaultArgs,
     ListArgs(Some(<<"T", "a", "s", "h">>), Null, Some(300000), Null, 20, 0)}

Init == InitWith(DatabaseUrls, Secrets, BOOLEAN, Stores(0), SpecArgs)

Next ==
    \/ OnStartup
    \/ OnShutdown
    \/ Respond
    \/ ListCall(MaxListCalls)
    \/ ListAcquire
    \/ ListFetch
    \/ SeedCall(MaxSeedCalls)
    \/ SeedAcquire
    \/ SeedPartner
    \/ SeedCar1
    \/ SeedCar2

Spec == Init /\ [][Next]_vars

(* QuerySpec: a configured, reachable store holding rows of another        *)
(* partner, and listings over every combination of present and absent      *)
(* filters, over the text inputs that matter to ILIKE and over windows.    *)
Tash == <<"T", "a", "s", "h">>

Presence ==
    {ListArgs(c, k, m, w, 20, 0) :
        c \in {Null, Some(Tash)},
        k \in {Null, Some(<<"E", "C", "O">>)},
        m \in {Null, Some(300000)},
        w \in {Null, Some(TRUE)}}

Texts ==
    {ListArgs(Some(c), Null, Null, Null, 20, 0) :
        c \in {<<>>, <<"_">>, <<"%">>, <<"\\">>, <<"a", "_", "h">>,
               <<"T", "A", "S", "H">>}}

Values ==
    {ListArgs(Null, Null, Some(250000), Null, 20, 0),
     ListArgs(Null, Null, Some(0), Null, 20, 0),
     ListArgs(Null, Null, Null, Some(FALSE), 20, 0)}

Windows ==
    {ListArgs(Null, Null, Null, Null, w[1], w[2]) :
        w \in {<<0, 0>>, <<0, 6>>, <<1, 0>>, <<1, 1>>, <<1, 6>>, <<20, 1>>,
               <<0 - 1, 0>>, <<20, 0 - 1>>}}

QueryArgs == Presence \cup Texts \cup Values \cup Windows

QueryStores == {st \in Stores(QueryPre) : OldDemoPartner \notin st.partners}

QueryInit ==
    InitWith({Some(<<"postgres://", "db.example/rent">>)}, {Some("s3cret")},
             {TRUE}, QueryStores, QueryArgs)

QueryNext ==
    \/ OnStartup
    \/ OnShutdown
    \/ Respond
    \/ ListCall(QueryListCalls)
    \/ ListAcquire
    \/ ListFetch
    \/ SeedCall(QuerySeedCalls)
    \/ SeedAcquire
    \/ SeedPartner
    \/ SeedCar1
    \/ SeedCar2

QuerySpec == QueryInit /\ [][QueryNext]_vars

(* PoolSpec: more concurrent requests than the pool has connections.  The  *)
(* event loop runs every task that can take a step, and storage answers    *)
(* (or fails) every call it was sent.                                      *)
PoolInit ==
    InitWith({Some(<<"postgresql://", "db.example/rent">>)}, {Some("s3cret")},
             {TRUE}, {FreshStore}, {DefaultArgs})

PoolNext ==
    \/ OnStartup
    \/ OnShutdown
    \/ Respond
    \/ ListCall(PoolListCalls)
    \/ ListAcquire
    \/ ListFetch
    \/ SeedCall(PoolSeedCalls)
    \/ SeedAcquire
    \/ SeedPartner
    \/ SeedCar1
    \/ SeedCar2

PoolSpec ==
    /\ PoolInit
    /\ [][PoolNext]_vars
    /\ WF_vars(Respond)
    /\ WF_vars(ListAcquire)
    /\ WF_vars(ListFetch)
    /\ WF_vars(SeedAcquire)
    /\ WF_vars(SeedPartner)
    /\ WF_vars(SeedCar1)
    /\ WF_vars(SeedCar2)

-----------------------------------------------------------------------------
(* Vocabulary of the properties.                                           *)

PoolAbsent == pool \in {"unset", "None"}
SecretSet == SEED_TOKEN # Null /\ SEED_TOKEN # Some("")
SeedTasks == {t \in BagToSet(tasks) : t.kind = "seed"}
DemoPartners(rows) == {p \in rows : p.slug = "demo-rent"}
RowOf(id) == CHOOSE c \in cars : c.id = id
ListAnswered == last.kind = "list" /\ last.status = 200 /\ ~PoolAbsent
SeedSucceeded == last.kind = "seed" /\ last.status = 200 /\ ~PoolAbsent

(* The number of tasks between pool.acquire() and the release.             *)
Holding ==
    LET hs == {t \in BagToSet(tasks) : t.pc # "acquire"} IN
    BagCardinality([t \in hs |-> tasks[t]])

(* s contains sub, letters compared without regard to case.                *)
Contains(s, sub) ==
    \E i \in 0..(Len(s) - Len(sub)) :
        \A j \in 1..Len(sub) : Lower(s[i + j]) = Lower(sub[j])

-----------------------------------------------------------------------------
(* C1: under any interleaving of the statements of any number of seeds,    *)
(* no two partner rows share a slug and no two car rows share              *)
(* (partner_id, external_id); when a seed has succeeded there is exactly   *)
(* one demo-rent partner, and it owns exactly the two cars demo-001 and    *)
(* demo-002, whose ids are the ones returned.                              *)
C1_NoDuplicates ==
    /\ \A p, q \in partners : p.slug = q.slug => p = q
    /\ \A p, q \in partners : p.id = q.id => p = q
    /\ \A c, d \in cars :
        (c.partner_id = d.partner_id /\ c.external_id = d.external_id) => c = d
    /\ \A c, d \in cars : c.id = d.id => c = d
    /\ SeedSucceeded =>
        /\ Cardinality(DemoPartners(partners)) = 1
        /\ \A p \in DemoPartners(partners) :
            /\ p.id = last.body.partner_id
            /\ LET own == {c \in cars : c.partner_id = p.id} IN
               /\ Cardinality(own) = 2
               /\ {c.external_id : c \in own} = {"demo-001", "demo-002"}
               /\ {c.id : c \in own} = {last.body.cars[1], last.body.cars[2]}

(* A seed has succeeded while another one is between its statements.       *)
C1_Witness ==
    /\ SeedSucceeded
    /\ \E t \in SeedTasks : t.pc = "car2"

-----------------------------------------------------------------------------
(* C2 as stated: a partner upsert that finds its slug stored with other    *)
(* values leaves one row for the slug, with the new values and a timestamp *)
(* later than the stored one.                                              *)
C2_Original ==
    [][(partner_seq' # partner_seq /\ \E p \in partners :
            p.slug = "demo-rent" /\ p.name # "Demo Rent")
        => /\ Cardinality(DemoPartners(partners')) = 1
           /\ \A p \in DemoPartners(partners), q \in DemoPartners(partners') :
                q.name = "Demo Rent" /\ q.created_at > p.created_at]_vars

(* C2 amended: a partner upsert that finds its slug stored with other      *)
(* values leaves one row for the slug, with the same id and the new        *)
(* values; the only timestamp of a partner row, created_at, keeps the time *)
(* of the insert.                                                          *)
C2_Amended ==
    [][(partner_seq' # partner_seq /\ \E p \in partners :
            p.slug = "demo-rent" /\ p.name # "Demo Rent")
        => /\ Cardinality(DemoPartners(partners')) = 1
           /\ \A p \in DemoPartners(partners), q \in DemoPartners(partners') :
                q.name = "Demo Rent" /\ q.id = p.id /\ q.created_at = p.created_at]_vars

(* The stored demo-rent row has been rewritten by a seed.                  *)
C2_Witness == [OldDemoPartner EXCEPT !.name = "Demo Rent"] \in partners

-----------------------------------------------------------------------------
(* What C3 calls the rows satisfying the filters of a: available, city and *)
(* class containing the input, price at most max_price, with_driver equal. *)
ClaimMatches(rows, a) ==
    {c \in rows :
        /\ c.available
        /\ Truthy(a.city) => (~IsNull(c.city) /\ Contains(Val(c.city), Val(a.city)))
        /\ Truthy(a.car_class) =>
              (~IsNull(c.class) /\ Contains(Val(c.class), Val(a.car_class)))
        /\ ~IsNull(a.max_price) =>
              (~IsNull(c.price_per_day) /\ Val(c.price_per_day) <= Val(a.max_price))
        /\ ~IsNull(a.with_driver) =>
              (~IsNull(c.with_driver) /\ Val(c.with_driver) = Val(a.with_driver))}

Returned == {last.rows[i].id : i \in DOMAIN last.rows}

Windowed(n, a) ==
    IF n <= a.offset THEN 0 ELSE Min(a.limit, n - a.offset)

(* C3: every listing answered from storage returns rows that are available *)
(* and satisfy each supplied filter, no row twice, and as many of them as  *)
(* the window leaves of the rows that do.                                  *)
C3_Claim ==
    ListAnswered =>
        LET M == ClaimMatches(cars, last.args) IN
        /\ Returned \subseteq {c.id : c \in M}
        /\ Cardinality(Returned) = Len(last.rows)
        /\ Len(last.rows) = Windowed(Cardinality(M), last.args)

(* The same, for inputs without the pattern characters of ILIKE.           *)
PlainText(x) == \A i \in DOMAIN x : x[i] \notin {"%", "_", "\\"}

C3_PlainInputs ==
    (/\ ListAnswered
     /\ Truthy(last.args.city) => PlainText(Val(last.args.city))
     /\ Truthy(last.args.car_class) => PlainText(Val(last.args.car_class)))
    => LET M == ClaimMatches(cars, last.args) IN
       /\ Returned \subseteq {c.id : c \in M}
       /\ Cardinality(Returned) = Len(last.rows)
       /\ Len(last.rows) = Windowed(Cardinality(M), last.args)

(* The scenario of C3: with the two seeded cars as the only rows,          *)
(* city=Tash and max_price=300000 return demo-001 alone.                   *)
C3_Scenario ==
    (/\ ListAnswered
     /\ last.args = ListArgs(Some(Tash), Null, Some(300000), Null, 20, 0)
     /\ {c.external_id : c \in cars} = {"demo-001", "demo-002"}
     /\ Cardinality(cars) = 2)
    => /\ Len(last.rows) = 1
       /\ RowOf(last.rows[1].id).external_id = "demo-001"

-----------------------------------------------------------------------------
(* C4: the rows of every listing answered from storage are in ascending    *)
(* order of price_per_day with the null prices last, and rows of equal     *)
(* price are in descending order of updated_at.                            *)
C4_Ordered ==
    ListAnswered =>
        \A i, j \in DOMAIN last.rows :
            i < j =>
                LET a == RowOf(last.rows[i].id)
                    b == RowOf(last.rows[j].id)
                IN
                /\ IsNull(a.price_per_day) => IsNull(b.price_per_day)
                /\ (~IsNull(a.price_per_day) /\ ~IsNull(b.price_per_day))
                      => Val(a.price_per_day) <= Val(b.price_per_day)
                /\ a.price_per_day = b.price_per_day => a.updated_at >= b.updated_at

(* A listing without filters that returned a null price and two rows of    *)
(* equal price stored at different times.                                  *)
C4_Witness ==
    /\ ListAnswered
    /\ last.args = DefaultArgs
    /\ \E i \in DOMAIN last.rows : IsNull(last.rows[i].price_per_day)
    /\ \E i, j \in DOMAIN last.rows :
        /\ i < j
        /\ ~IsNull(last.rows[i].price_per_day)
        /\ last.rows[i].price_per_day = last.rows[j].price_per_day
        /\ RowOf(last.rows[i].id).updated_at > RowOf(last.rows[j].id).updated_at

-----------------------------------------------------------------------------
(* C5: with a pool and non-negative limit and offset, a listing whose      *)
(* storage call is answered returns the empty sequence with status 200     *)
(* when limit is 0, and when offset is at least the number of rows the     *)
(* query selects.                                                          *)
C5_EmptyWindow ==
    (/\ last.kind = "list"
     /\ ~PoolAbsent
     /\ last.err # "storage"
     /\ last.args.limit >= 0
     /\ last.args.offset >= 0
     /\ \/ last.args.limit = 0
        \/ last.args.offset >= Cardinality(Selected(cars, last.args)))
    => (last.status = 200 /\ last.rows = <<>>)

(* A listing with limit 0 over rows that match.                            *)
C5_Witness ==
    /\ ListAnswered
    /\ last.args.limit = 0
    /\ last.args.offset = 0
    /\ Selected(cars, last.args) # {}
    /\ last.rows = <<>>

(* A listing whose offset is past the rows that match.                     *)
C5_WitnessOffset ==
    /\ ListAnswered
    /\ last.args.limit > 0
    /\ Selected(cars, last.args) # {}
    /\ last.args.offset >= Cardinality(Selected(cars, last.args))
    /\ last.rows = <<>>

-----------------------------------------------------------------------------
(* C6 as stated: without a pool, list_cars answers 200 with the empty list *)
(* and admin_seed answers 200 with {"ok": false, ...}, whatever the        *)
(* request.                                                                *)
C6_Original ==
    PoolAbsent =>
        /\ last.kind = "list" => (last.status = 200 /\ last.rows = <<>>)
        /\ last.kind = "seed" =>
              (last.status = 200 /\ last.body.ok = FALSE)

(* C6 amended: without a pool no request reaches storage; list_cars        *)
(* answers 200 with the empty list for any filters and pagination, and an  *)
(* admin_seed whose token equals the configured secret answers 200 with    *)
(* {"ok": false, ...}; the token check comes first, so the other           *)
(* admin_seed requests are answered 500 (no secret) or 401 (other token).  *)
C6_Amended ==
    (PoolAbsent /\ phase # "boot") =>
        /\ tasks = EmptyBag
        /\ waited = 0
        /\ acquired = 0
        /\ ~ensured
        /\ last.kind = "list" => (last.status = 200 /\ last.rows = <<>>)
        /\ (last.kind = "seed" /\ SecretSet /\ last.token = SEED_TOKEN) =>
              (last.status = 200 /\ last.body.ok = FALSE)
        /\ (last.kind = "seed" /\ ~(SecretSet /\ last.token = SEED_TOKEN)) =>
              last.status \in {401, 500}

(* An authorized seed answered without a pool.                             *)
C6_Witness ==
    /\ pool = "None"
    /\ last.kind = "seed"
    /\ last.status = 200
    /\ last.token = SEED_TOKEN

-----------------------------------------------------------------------------
C7_StateInv ==
    /\ last.kind = "seed" =>
        /\ ~SecretSet => (last.status = 500 /\ last.err = "none")
        /\ (SecretSet /\ last.token # SEED_TOKEN) =>
              (last.status = 401 /\ last.err = "none")
    /\ \A t \in SeedTasks : SecretSet /\ t.args.token = SEED_TOKEN

C7_Rejected(r) ==
    r.kind = "seed" /\ ~(SecretSet /\ r.token = SEED_TOKEN)

(* C7: an admin_seed request is answered 500 when no secret is configured, *)
(* whatever its token, and 401 when its token is not the configured        *)
(* secret; only requests whose token equals a configured, non-empty secret *)
(* go on to storage, a step that answers 401 or 500 to a rejected request  *)
(* leaves both tables as they were, and the tables change only while such  *)
(* an authorized request is in progress.                                   *)
C7_NoWrites ==
    [](C7_StateInv)
    /\ [][/\ C7_Rejected(last') =>
                (partners' = partners /\ cars' = cars /\ partner_seq' = partner_seq
                 /\ car_seq' = car_seq)
          /\ (partners' # partners \/ cars' # cars) =>
                \E t \in SeedTasks : SecretSet /\ t.args.token = SEED_TOKEN]_vars

(* A request with a wrong token rejected by a service that has a pool and  *)
(* seeded rows.                                                            *)
C7_Witness ==
    /\ last.kind = "seed"
    /\ last.status = 401
    /\ pool = "open"
    /\ \E c \in cars : c.external_id = "demo-002"

-----------------------------------------------------------------------------
Degraded ==
    /\ phase \in {"serving", "stopped"}
    /\ PoolAbsent
    /\ ~ensured
    /\ acquired = 0
    /\ last.kind = "list" => (last.status = 200 /\ last.rows = <<>>)

-----------------------------------------------------------------------------
(* C9: a seed runs its car upserts only after its partner upsert returned, *)
(* and with the id it returned, which is the id of the demo-rent row; in   *)
(* every state, between the statements of interleaved seeds and after a    *)
(* seed that failed part-way included, each car row refers to a stored     *)
(* partner row.                                                            *)
C9_PartnerFirst ==
    /\ \A c \in cars : \E p \in partners : p.id = c.partner_id
    /\ \A t \in SeedTasks :
        /\ t.pc \in {"acquire", "partner"} => (t.pid = Null /\ t.car1 = Null)
        /\ t.pc \in {"car1", "car2"} =>
              (t.pid # Null /\ \E p \in DemoPartners(partners) : p.id = Val(t.pid))
        /\ t.pc = "car1" => t.car1 = Null
        /\ t.pc = "car2" =>
              (t.car1 # Null /\ \E c \in cars :
                  /\ c.id = Val(t.car1)
                  /\ c.partner_id = Val(t.pid)
                  /\ c.external_id = "demo-001")
    /\ (\E c \in cars : c.external_id \in {"demo-001", "demo-002"}) =>
          DemoPartners(partners) # {}
    /\ SeedSucceeded =>
          \A i \in 1..2 : \E c \in cars :
              c.id = last.body.cars[i] /\ c.partner_id = last.body.partner_id

(* A seed failed after its first car upsert while another seed had not yet *)
(* run its partner upsert.                                                 *)
C9_Witness ==
    /\ last.kind = "seed"
    /\ last.err = "storage"
    /\ \E c \in cars : c.external_id = "demo-001"
    /\ ~\E c \in cars : c.external_id = "demo-002"
    /\ \E t \in SeedTasks : t.pc = "partner"

-----------------------------------------------------------------------------
C10_PoolInv ==
    /\ acquired - released >= 0
    /\ acquired - released <= MaxSize
    /\ acquired - released = Holding
    /\ acquired <= waited
    /\ waited - acquired = BagCardinality(tasks) - Holding
    /\ (last # NoResp /\ ~PoolAbsent) => last.err \in {"none", "storage", "query"}

(* C10: at most max_size connections are held at any time; the connections *)
(* held are exactly those of the tasks between acquire and release, so a   *)
(* finished request, returned or raised, holds none; a request that finds  *)
(* every connection held stays waiting and is not answered with an error;  *)
(* whenever requests wait for a connection a state follows in which each   *)
(* has got one, and whenever connections are held a state follows in which *)
(* each has been given back.                                               *)
C10_Pool ==
    /\ [](C10_PoolInv)
    /\ (waited > acquired) ~> (waited = acquired)
    /\ (acquired > released) ~> (acquired = released)

(* Every connection is held and a request is waiting for one.              *)
C10_Witness ==
    /\ acquired - released = MaxSize
    /\ \E t \in BagToSet(tasks) : t.pc = "acquire"
    /\ \E t \in SeedTasks : t.pc # "acquire"

=============================================================================
